---- MODULE Spec2Model ----
(***************************************************************************)
(* Multi-DB CRUD application: one Express process, three routers           *)
(* (/api/mongo, /api/mysql, /api/sqlite), each translating five HTTP       *)
(* operations on a `users` resource into one call on its own store.        *)
(*                                                                         *)
(* The model follows server.js (startServer), config/mongodb.js,           *)
(* config/mysql.js, config/sqlite.js and the three route files.  The       *)
(* three stores themselves are the environment: they are modelled by what  *)
(* the drivers document (better-sqlite3 and mysql2 refuse to bind          *)
(* `undefined`; Mongoose `required` rejects a missing or empty string and  *)
(* a malformed ObjectId is a CastError; NOT NULL admits an empty string).  *)
(***************************************************************************)
EXTENDS Integers, Sequences, FiniteSets, TLC

VARIABLES
    pc,             \* position of startServer / the process
    up,             \* environment: is the store of each backend reachable
    mongoConnected, \* config/mongodb.js: let mongoConnected
    pool,           \* config/mysql.js:   let pool
    db,             \* config/sqlite.js:  let db
    schema,         \* backends whose `users` table has been created
    rows,           \* contents of each store's users table / collection
    nextId,         \* each store's AUTO_INCREMENT / ObjectId generator
    now,            \* the stores' clock (CURRENT_TIMESTAMP, Date.now)
    users,          \* Mini Online Store, controllers/userController.js: const users
    wpc,            \* weather logger: where main() and the server stand
    weatherReport,  \* weather logger, main: const weatherReport
    logFile,        \* weather logger: the contents of LOG_FILE on disk
    exitCode,       \* weather logger: the code the process exited with
    reads,          \* weather logger: fs.readFile calls whose callback is due
    lastStatus,     \* weather logger: the status of the last response sent
    inflight,       \* CRUD server: the requests of the current burst, each with
                    \* the outcome of its handler once its statement has run
    base            \* CRUD server: the stores when the current burst began

\* the multi-backend CRUD server
crudVars == <<pc, up, mongoConnected, pool, db, schema, rows, nextId, now>>

\* the Mini Online Store API
storeVars == <<users>>

\* the weather logger
weatherVars == <<wpc, weatherReport, logFile, exitCode, reads, lastStatus>>

\* the handlers of the CRUD server that are under way
burstVars == <<inflight, base>>

\* the state of the programs other than the multi-backend CRUD server, and
\* the handlers under way while it handles one request at a time
elsewhere == <<storeVars, weatherVars, burstVars>>

\* the state of the programs other than the Mini Online Store API
outsideStore == <<crudVars, weatherVars, burstVars>>

\* the state of the programs other than the weather logger
outsideWeather == <<crudVars, storeVars, burstVars>>

vars == <<crudVars, storeVars, weatherVars, burstVars>>

(***************************************************************************)
(* Bounds of the model.                                                    *)
(***************************************************************************)
\* rows inserted over a run, all stores together
MaxRows == 2

\* users created over a run of the Mini Online Store
MaxNewUsers == 3

\* ticks of the stores' clock over a run
MaxClock == 1

\* fs.readFile calls of the weather logger's server under way at one time
MaxReads == 2

\* requests of the CRUD server under way at one time
MaxInflight == 2

Backends == {"mongo", "mysql", "sqlite"}

(***************************************************************************)
(* Request inputs.  A text is a sequence of characters; a JSON body is a   *)
(* record that may lack a key.  `const { name, email, phone } = req.body`  *)
(* yields `undefined` for a key the body lacks.                            *)
(***************************************************************************)
Undefined == [type |-> "undefined"]

JsString(s) == [type |-> "string", value |-> s]

Destructure(body, key) ==
    IF key \in DOMAIN body THEN JsString(body[key]) ELSE Undefined

Fields(body) ==
    [name  |-> Destructure(body, "name"),
     email |-> Destructure(body, "email"),
     phone |-> Destructure(body, "phone")]

IsUndefined(v) == v.type = "undefined"

AnyUndefined(f) ==
    IsUndefined(f.name) \/ IsUndefined(f.email) \/ IsUndefined(f.phone)

BodyAnn       == [name |-> <<"A">>, email |-> <<"a", "@">>, phone |-> <<"5">>]
BodyBlankBob  == [name |-> <<"B">>, email |-> <<"b", "@">>, phone |-> <<" ", " ">>]
BodyNoEmail   == [name |-> <<"A">>, phone |-> <<"5">>]
BodyEmptyName == [name |-> <<>>, email |-> <<"a", "@">>, phone |-> <<"5">>]

Bodies == {BodyAnn, BodyBlankBob, BodyNoEmail, BodyEmptyName}

(***************************************************************************)
(* Path parameters.  req.params.id is a string.  The decimal numerals      *)
(* stand for well-formed identifiers (for mongo: 24-hex ObjectIds), the    *)
(* last numeral is one that the bounded run never assigns, and "x" is a    *)
(* string that is no identifier of any backend.                            *)
(***************************************************************************)
IdNumbers == 1 .. (MaxRows + 1)

PathIds == {ToString(i) : i \in IdNumbers} \cup {"x"}

WellFormed(id) == \E i \in IdNumbers : ToString(i) = id

\* the number a well-formed path parameter denotes (parseInt, the stores'
\* text-to-integer comparison); 0 for a text that denotes none
ParseId(id) ==
    IF WellFormed(id) THEN CHOOSE i \in IdNumbers : ToString(i) = id ELSE 0

(***************************************************************************)
(* Mini Online Store, controllers/userController.js: the users array as    *)
(* the module defines it.                                                  *)
(***************************************************************************)
SeedUsers ==
    << [id |-> 1, name |-> "Alice Johnson", email |-> "alice@example.com",
        role |-> "admin"],
       [id |-> 2, name |-> "Bob Smith", email |-> "bob@example.com",
        role |-> "customer"],
       [id |-> 3, name |-> "Charlie Lee", email |-> "charlie@example.com",
        role |-> "customer"] >>

StoreInit == users = SeedUsers

\* no handler is under way, the stores are empty
BurstInit ==
    /\ inflight = <<>>
    /\ base = [rows |-> [b \in Backends |-> {}], nextId |-> [b \in Backends |-> 1]]

\* what weatherReport holds before it is assigned, and the log file before
\* it is written
Nothing == [title |-> "nothing"]

\* no exit code, no response yet
None == <<>>

\* main() has run up to its first await: axios.get is under way
WeatherInit ==
    /\ wpc = "fetchWeather"
    /\ weatherReport = Nothing
    /\ logFile = Nothing
    /\ exitCode = None
    /\ reads = 0
    /\ lastStatus = None

(***************************************************************************)
(* Initial state: the process has been loaded, startServer has not run;    *)
(* the stores are fresh (no table, no row) and each is up or down.         *)
(***************************************************************************)
Init ==
    /\ pc = "connectMongoDB"
    /\ up \in [Backends -> BOOLEAN]
    /\ mongoConnected = FALSE
    /\ pool = "undefined"
    /\ db = "undefined"
    /\ schema = {}
    /\ rows = [b \in Backends |-> {}]
    /\ nextId = [b \in Backends |-> 1]
    /\ now = 0
    /\ StoreInit
    /\ WeatherInit
    /\ BurstInit

(***************************************************************************)
(* Startup: startServer awaits connectMongoDB, connectMySQL, then calls    *)
(* connectSQLite, then app.listen.  Every connect function wraps its body  *)
(* in try/catch: the catch logs and returns.                               *)
(***************************************************************************)
\* what a connect function's catch block does with a failure: what a
\* rethrow would do instead
ConnectRethrows(ok, next) == IF ok THEN next ELSE "crashed"

ConnectCatch(ok, next) == next

connectMongoDB ==
    /\ pc = "connectMongoDB"
    /\ mongoConnected' = up["mongo"]
    /\ pc' = ConnectCatch(up["mongo"], "connectMySQL")
    /\ UNCHANGED <<up, pool, db, schema, rows, nextId, now>>
    /\ UNCHANGED elsewhere

connectMySQL ==
    /\ pc = "connectMySQL"
    /\ pool' = "created"
    /\ schema' = IF up["mysql"] THEN schema \cup {"mysql"} ELSE schema
    /\ pc' = ConnectCatch(up["mysql"], "connectSQLite")
    /\ UNCHANGED <<up, mongoConnected, db, rows, nextId, now>>
    /\ UNCHANGED elsewhere

connectSQLite ==
    /\ pc = "connectSQLite"
    /\ db' = IF up["sqlite"] THEN "open" ELSE db
    /\ schema' = IF up["sqlite"] THEN schema \cup {"sqlite"} ELSE schema
    /\ pc' = ConnectCatch(up["sqlite"], "listen")
    /\ UNCHANGED <<up, mongoConnected, pool, rows, nextId, now>>
    /\ UNCHANGED elsewhere

listen ==
    /\ pc = "listen"
    /\ pc' = "serving"
    /\ UNCHANGED <<up, mongoConnected, pool, db, schema, rows, nextId, now>>
    /\ UNCHANGED elsewhere

startServer == connectMongoDB \/ connectMySQL \/ connectSQLite \/ listen

(***************************************************************************)
(* Environment: a store goes down or comes back at any time.               *)
(***************************************************************************)
StoreToggles(b) ==
    /\ pc # "crashed"
    /\ up' = [up EXCEPT ![b] = ~up[b]]
    /\ UNCHANGED <<pc, mongoConnected, pool, db, schema, rows, nextId, now>>
    /\ UNCHANGED elsewhere

(***************************************************************************)
(* The world a handler runs in: the adapters' module state and the stores. *)
(***************************************************************************)
World ==
    [up |-> up, mongoConnected |-> mongoConnected, pool |-> pool, db |-> db,
     schema |-> schema, rows |-> rows, nextId |-> nextId, now |-> now]

Inserted(w) ==
    (w.nextId["mongo"] - 1) + (w.nextId["mysql"] - 1) + (w.nextId["sqlite"] - 1)

(***************************************************************************)
(* What a handler leaves behind: the response sent (status, json), the     *)
(* store's rows and id generator after it, the error it caught (thrown),   *)
(* the number of statements it handed to its adapter (calls), and whether  *)
(* an exception left the handler (escaped).  A path through a handler that *)
(* ends in one res.status(..).json(..) has sent one response (sent).       *)
(***************************************************************************)
Outcome(w, b, status, json, newRows, newNextId, thrown, calls) ==
    [status |-> status, json |-> json, rows |-> newRows, nextId |-> newNextId,
     thrown |-> thrown, calls |-> calls, escaped |-> FALSE, sent |-> 1]

\* res.status(s).json(j) of a handler that changed nothing in the store
Reply(w, b, status, json, calls) ==
    Outcome(w, b, status, json, w.rows[b], w.nextId[b], "none", calls)

\* a handler without its try/catch: the exception leaves the handler
HandlerRethrows(w, b, error, calls) ==
    [status |-> 0, json |-> <<>>, rows |-> w.rows[b], nextId |-> w.nextId[b],
     thrown |-> error, calls |-> calls, escaped |-> TRUE, sent |-> 0]

\* a catch block that sends the error under another key than `message`
HandlerCatchOtherKey(w, b, error, calls) ==
    Outcome(w, b, 500, [success |-> FALSE, error |-> error],
            w.rows[b], w.nextId[b], error, calls)

\* a catch block that issues the failed call once more before answering
HandlerCatchRetries(w, b, error, calls) ==
    Outcome(w, b, 500, [success |-> FALSE, message |-> error],
            w.rows[b], w.nextId[b], error, calls + 1)

\* catch (error) { res.status(500).json({ success: false, message: error.message }) }
HandlerCatch(w, b, error, calls) ==
    Outcome(w, b, 500, [success |-> FALSE, message |-> error],
            w.rows[b], w.nextId[b], error, calls)

\* a handler that does not look at the number of rows its statement touched
NotFoundIgnored(w, b, calls) ==
    Reply(w, b, 200, [success |-> TRUE, message |-> "User deleted successfully"], calls)

\* a 404 branch without its return: the handler goes on to res.json(...)
\* and, headers being sent already, from there into the catch block
NotFoundFallsThrough(w, b, calls) ==
    [status |-> 404, json |-> [success |-> FALSE, message |-> "User not found"],
     rows |-> w.rows[b], nextId |-> w.nextId[b], thrown |-> "ERR_HTTP_HEADERS_SENT",
     calls |-> calls, escaped |-> TRUE, sent |-> 3]

NotFound(w, b, calls) ==
    Reply(w, b, 404, [success |-> FALSE, message |-> "User not found"], calls)

\* a delete that answers 200 and leaves the row where it was
DeletedSoftly(w, b, newRows, calls) ==
    Reply(w, b, 200, [success |-> TRUE, message |-> "User deleted successfully"], calls)

Deleted(w, b, newRows, calls) ==
    Outcome(w, b, 200, [success |-> TRUE, message |-> "User deleted successfully"],
            newRows, w.nextId[b], "none", calls)

(***************************************************************************)
(* ORDER BY created_at DESC / sort({createdAt: -1}): every arrangement of  *)
(* the rows in which a later timestamp never follows an earlier one; the   *)
(* stores leave the order of equal timestamps open.                        *)
(***************************************************************************)
Arrangements(S) ==
    {s \in [1 .. Cardinality(S) -> S] : \A i, j \in DOMAIN s : i # j => s[i] # s[j]}

Created(b, r) == IF b = "mongo" THEN r.createdAt ELSE r.created_at

OrderedByCreatedDesc(b, S) ==
    {s \in Arrangements(S) :
        \A i, j \in DOMAIN s : i < j => Created(b, s[i]) >= Created(b, s[j])}

(***************************************************************************)
(* INSERT INTO users (name, email, phone) VALUES (?, ?, ?) with the        *)
(* parameters (name, email, phone): the row the SQL stores create, its     *)
(* timestamps defaulting to CURRENT_TIMESTAMP.                             *)
(***************************************************************************)
\* the parameters bound in another order than the columns
InsertedRowSwapped(id, f, t) ==
    [id |-> id, name |-> f.name.value, email |-> f.phone.value,
     phone |-> f.email.value, created_at |-> t, updated_at |-> t]

InsertedRow(id, f, t) ==
    [id |-> id, name |-> f.name.value, email |-> f.email.value,
     phone |-> f.phone.value, created_at |-> t, updated_at |-> t]

\* a response that leaves out the id the store assigned
CreatedUserWithoutId(id, f) ==
    [id |-> 0, name |-> f.name.value, email |-> f.email.value,
     phone |-> f.phone.value]

\* data: { id: result.lastInsertRowid, name, email, phone }
CreatedUser(id, f) ==
    [id |-> id, name |-> f.name.value, email |-> f.email.value,
     phone |-> f.phone.value]

(***************************************************************************)
(* routes/sqliteRoutes.js (better-sqlite3, synchronous).                   *)
(***************************************************************************)
\* getDB().prepare(sql): TypeError on an undefined db, SqliteError on a
\* file that cannot be used or a table that was never created
sqlitePrepareError(w) ==
    IF w.db = "undefined"
        THEN "Cannot read properties of undefined (reading 'prepare')"
    ELSE IF ~w.up["sqlite"] THEN "disk I/O error"
    ELSE IF "sqlite" \notin w.schema THEN "no such table: users"
    ELSE "none"

sqliteCalls(w) == IF w.db = "undefined" THEN 0 ELSE 1

\* stmt.run(...) refuses a parameter that is undefined
sqliteBindError(f) ==
    IF AnyUndefined(f)
        THEN "SQLite3 can only bind numbers, strings, bigints, buffers, and null"
        ELSE "none"

\* WHERE id = ?: the text parameter is compared as an integer when it is one
sqliteMatch(w, id) ==
    {r \in w.rows["sqlite"] : WellFormed(id) /\ r.id = ParseId(id)}

sqlitePost(w, body) ==
    LET f == Fields(body)
        e == sqlitePrepareError(w)
        err == IF e # "none" THEN e ELSE sqliteBindError(f)
        lastInsertRowid == w.nextId["sqlite"]
        row == InsertedRow(lastInsertRowid, f, w.now)
    IN  IF err # "none" THEN HandlerCatch(w, "sqlite", err, sqliteCalls(w))
        ELSE Outcome(w, "sqlite", 201,
                     [success |-> TRUE,
                      data |-> CreatedUser(lastInsertRowid, f)],
                     w.rows["sqlite"] \cup {row}, lastInsertRowid + 1, "none", 1)

\* a list handler that treats an empty result as "not found"
sqliteListNoneIs404(w, order) ==
    LET e == sqlitePrepareError(w)
    IN  IF e # "none" THEN HandlerCatch(w, "sqlite", e, sqliteCalls(w))
        ELSE IF order = <<>> THEN NotFound(w, "sqlite", 1)
        ELSE Reply(w, "sqlite", 200, [success |-> TRUE, data |-> order], 1)

sqliteList(w, order) ==
    LET e == sqlitePrepareError(w)
    IN  IF e # "none" THEN HandlerCatch(w, "sqlite", e, sqliteCalls(w))
        ELSE Reply(w, "sqlite", 200, [success |-> TRUE, data |-> order], 1)

sqliteGet(w, id) ==
    LET e == sqlitePrepareError(w)
        found == sqliteMatch(w, id)
    IN  IF e # "none" THEN HandlerCatch(w, "sqlite", e, sqliteCalls(w))
        ELSE IF found = {} THEN NotFound(w, "sqlite", 1)
        ELSE Reply(w, "sqlite", 200,
                   [success |-> TRUE, data |-> CHOOSE r \in found : TRUE], 1)

\* INSERT OR REPLACE in place of UPDATE: the row is written whether or not
\* one had that id
sqlitePutUpsert(w, id, body) ==
    LET f == Fields(body)
        e == sqlitePrepareError(w)
        err == IF e # "none" THEN e ELSE sqliteBindError(f)
        found == sqliteMatch(w, id)
    IN  IF err # "none" THEN HandlerCatch(w, "sqlite", err, sqliteCalls(w))
        ELSE Outcome(w, "sqlite", 200,
                     [success |-> TRUE, data |-> CreatedUser(ParseId(id), f)],
                     (w.rows["sqlite"] \ found)
                        \cup {InsertedRow(ParseId(id), f, w.now)},
                     w.nextId["sqlite"], "none", 1)

sqlitePut(w, id, body) ==
    LET f == Fields(body)
        e == sqlitePrepareError(w)
        err == IF e # "none" THEN e ELSE sqliteBindError(f)
        found == sqliteMatch(w, id)
        updated == {[r EXCEPT !.name = f.name.value, !.email = f.email.value,
                              !.phone = f.phone.value, !.updated_at = w.now]
                        : r \in found}
    IN  IF err # "none" THEN HandlerCatch(w, "sqlite", err, sqliteCalls(w))
        ELSE IF Cardinality(found) = 0 THEN NotFound(w, "sqlite", 1)
        ELSE Outcome(w, "sqlite", 200,
                     [success |-> TRUE,
                      data |-> [id |-> ParseId(id), name |-> f.name.value,
                                email |-> f.email.value, phone |-> f.phone.value]],
                     (w.rows["sqlite"] \ found) \cup updated,
                     w.nextId["sqlite"], "none", 1)

sqliteDelete(w, id) ==
    LET e == sqlitePrepareError(w)
        found == sqliteMatch(w, id)
    IN  IF e # "none" THEN HandlerCatch(w, "sqlite", e, sqliteCalls(w))
        ELSE IF Cardinality(found) = 0 THEN NotFound(w, "sqlite", 1)
        ELSE Deleted(w, "sqlite", w.rows["sqlite"] \ found, 1)

(***************************************************************************)
(* routes/mysqlRoutes.js (mysql2/promise pool).                            *)
(***************************************************************************)
mysqlCalls(w) == IF w.pool = "undefined" THEN 0 ELSE 1

\* getPool().execute(sql, params): TypeError on an undefined pool, a
\* connection error while the server is down, a TypeError for an undefined
\* bind parameter, an SQL error for a table that was never created
mysqlExecuteError(w, f) ==
    IF w.pool = "undefined"
        THEN "Cannot read properties of undefined (reading 'execute')"
    ELSE IF ~w.up["mysql"] THEN "connect ECONNREFUSED"
    ELSE IF AnyUndefined(f)
        THEN "Bind parameters must not contain undefined. To pass SQL NULL specify JS null"
    ELSE IF "mysql" \notin w.schema THEN "Table multi_db_crud.users doesn't exist"
    ELSE "none"

\* a statement that binds no request field
NoFields == Fields(BodyAnn)

\* the statement without its WHERE clause
mysqlMatchAll(w, id) == w.rows["mysql"]

\* WHERE id = ? with a text parameter: the text is converted to a number
mysqlMatch(w, id) == {r \in w.rows["mysql"] : r.id = ParseId(id)}

\* UPDATE and DELETE under a strict sql_mode refuse a text that is no number
mysqlWriteError(w, f, id, strict) ==
    LET e == mysqlExecuteError(w, f)
    IN  IF e # "none" THEN e
        ELSE IF strict /\ ~WellFormed(id) THEN "Truncated incorrect DOUBLE value"
        ELSE "none"

mysqlPost(w, body) ==
    LET f == Fields(body)
        err == mysqlExecuteError(w, f)
        insertId == w.nextId["mysql"]
        row == InsertedRow(insertId, f, w.now)
    IN  IF err # "none" THEN HandlerCatch(w, "mysql", err, mysqlCalls(w))
        ELSE Outcome(w, "mysql", 201,
                     [success |-> TRUE,
                      data |-> CreatedUser(insertId, f)],
                     w.rows["mysql"] \cup {row}, insertId + 1, "none", 1)

\* a list handler whose catch answers an empty list instead of the error
mysqlListSwallowsError(w, order) ==
    LET err == mysqlExecuteError(w, NoFields)
    IN  IF err # "none"
            THEN Reply(w, "mysql", 200, [success |-> TRUE, data |-> <<>>], mysqlCalls(w))
            ELSE Reply(w, "mysql", 200, [success |-> TRUE, data |-> order], 1)

mysqlList(w, order) ==
    LET err == mysqlExecuteError(w, NoFields)
    IN  IF err # "none" THEN HandlerCatch(w, "mysql", err, mysqlCalls(w))
        ELSE Reply(w, "mysql", 200, [success |-> TRUE, data |-> order], 1)

mysqlGet(w, id) ==
    LET err == mysqlExecuteError(w, NoFields)
        found == mysqlMatch(w, id)
    IN  IF err # "none" THEN HandlerCatch(w, "mysql", err, mysqlCalls(w))
        ELSE IF Cardinality(found) = 0 THEN NotFound(w, "mysql", 1)
        ELSE Reply(w, "mysql", 200,
                   [success |-> TRUE, data |-> CHOOSE r \in found : TRUE], 1)

\* updated_at ... ON UPDATE CURRENT_TIMESTAMP: refreshed when the UPDATE
\* changes a column of the row; affectedRows counts the rows matched
mysqlUpdatedRow(r, f, t) ==
    LET changed == r.name # f.name.value \/ r.email # f.email.value
                   \/ r.phone # f.phone.value
    IN  [r EXCEPT !.name = f.name.value, !.email = f.email.value,
                  !.phone = f.phone.value,
                  !.updated_at = IF changed THEN t ELSE r.updated_at]

\* affectedRows counting only the rows whose values the UPDATE changed (a
\* connection opened without the FOUND_ROWS flag)
mysqlChangedRows(found, updated) == Cardinality(found \ updated)

\* result.affectedRows of an UPDATE: mysql2 connects with FOUND_ROWS, so
\* the rows the WHERE clause matched are counted
mysqlAffectedRows(found, updated) == Cardinality(found)

mysqlPut(w, id, body, strict) ==
    LET f == Fields(body)
        err == mysqlWriteError(w, f, id, strict)
        found == mysqlMatch(w, id)
        updated == {mysqlUpdatedRow(r, f, w.now) : r \in found}
    IN  IF err # "none" THEN HandlerCatch(w, "mysql", err, mysqlCalls(w))
        ELSE IF mysqlAffectedRows(found, updated) = 0 THEN NotFound(w, "mysql", 1)
        ELSE Outcome(w, "mysql", 200,
                     [success |-> TRUE,
                      data |-> [id |-> ParseId(id), name |-> f.name.value,
                                email |-> f.email.value, phone |-> f.phone.value]],
                     (w.rows["mysql"] \ found) \cup updated,
                     w.nextId["mysql"], "none", 1)

mysqlDelete(w, id, strict) ==
    LET err == mysqlWriteError(w, NoFields, id, strict)
        found == mysqlMatch(w, id)
    IN  IF err # "none" THEN HandlerCatch(w, "mysql", err, mysqlCalls(w))
        ELSE IF Cardinality(found) = 0 THEN NotFound(w, "mysql", 1)
        ELSE Deleted(w, "mysql", w.rows["mysql"] \ found, 1)

(***************************************************************************)
(* routes/mongoRoutes.js (Mongoose).                                       *)
(***************************************************************************)
\* userSchema: `required: true` on a String path rejects undefined and ""
mongoRequiredError(v) ==
    IF IsUndefined(v) \/ v.value = <<>> THEN "User validation failed" ELSE "none"

mongoValidateSave(f) ==
    IF mongoRequiredError(f.name) # "none" \/ mongoRequiredError(f.email) # "none"
       \/ mongoRequiredError(f.phone) # "none"
        THEN "User validation failed"
        ELSE "none"

\* runValidators on an update: undefined keys are dropped from the update,
\* the paths that remain are validated
mongoValidateUpdate(f) ==
    IF \E k \in {"name", "email", "phone"} :
            ~IsUndefined(f[k]) /\ mongoRequiredError(f[k]) # "none"
        THEN "Validation failed"
        ELSE "none"

\* req.params.id is cast to an ObjectId before the query is sent
mongoCastError(id) ==
    IF WellFormed(id) THEN "none" ELSE "Cast to ObjectId failed"

mongoNetworkError(w) ==
    IF w.up["mongo"] THEN "none" ELSE "Operation users.findOne() buffering timed out"

mongoMatch(w, id) == {r \in w.rows["mongo"] : r._id = id}

mongoPost(w, body) ==
    LET f == Fields(body)
        v == mongoValidateSave(f)
        err == IF v # "none" THEN v ELSE mongoNetworkError(w)
        user == [_id |-> ToString(w.nextId["mongo"]), name |-> f.name.value,
                 email |-> f.email.value, phone |-> f.phone.value,
                 createdAt |-> w.now, updatedAt |-> w.now]
    IN  IF err # "none" THEN HandlerCatch(w, "mongo", err, 1)
        ELSE Outcome(w, "mongo", 201, [success |-> TRUE, data |-> user],
                     w.rows["mongo"] \cup {user}, w.nextId["mongo"] + 1, "none", 1)

mongoList(w, order) ==
    LET err == mongoNetworkError(w)
    IN  IF err # "none" THEN HandlerCatch(w, "mongo", err, 1)
        ELSE Reply(w, "mongo", 200, [success |-> TRUE, data |-> order], 1)

mongoGet(w, id) ==
    LET c == mongoCastError(id)
        err == IF c # "none" THEN c ELSE mongoNetworkError(w)
        found == mongoMatch(w, id)
    IN  IF err # "none" THEN HandlerCatch(w, "mongo", err, 1)
        ELSE IF found = {} THEN NotFound(w, "mongo", 1)
        ELSE Reply(w, "mongo", 200,
                   [success |-> TRUE, data |-> CHOOSE r \in found : TRUE], 1)

mongoUpdatedDoc(r, f, t) ==
    [r EXCEPT !.name = IF IsUndefined(f.name) THEN r.name ELSE f.name.value,
              !.email = IF IsUndefined(f.email) THEN r.email ELSE f.email.value,
              !.phone = IF IsUndefined(f.phone) THEN r.phone ELSE f.phone.value,
              !.updatedAt = t]

mongoPut(w, id, body) ==
    LET f == Fields(body)
        c == mongoCastError(id)
        v == IF c # "none" THEN c ELSE mongoValidateUpdate(f)
        err == IF v # "none" THEN v ELSE mongoNetworkError(w)
        found == mongoMatch(w, id)
        updated == {mongoUpdatedDoc(r, f, w.now) : r \in found}
    IN  IF err # "none" THEN HandlerCatch(w, "mongo", err, 1)
        ELSE IF found = {} THEN NotFound(w, "mongo", 1)
        ELSE Outcome(w, "mongo", 200,
                     [success |-> TRUE, data |-> CHOOSE r \in updated : TRUE],
                     (w.rows["mongo"] \ found) \cup updated,
                     w.nextId["mongo"], "none", 1)

mongoDelete(w, id) ==
    LET c == mongoCastError(id)
        err == IF c # "none" THEN c ELSE mongoNetworkError(w)
        found == mongoMatch(w, id)
    IN  IF err # "none" THEN HandlerCatch(w, "mongo", err, 1)
        ELSE IF found = {} THEN NotFound(w, "mongo", 1)
        ELSE Deleted(w, "mongo", w.rows["mongo"] \ found, 1)

(***************************************************************************)
(* routes/mongoRoutes.js, router.use: the availability middleware answers  *)
(* 503 itself and calls next() only when isMongoConnected().  It is        *)
(* mounted on the mongo router alone.                                      *)
(***************************************************************************)
\* a middleware that asks the store itself instead of the startup flag
isMongoReachable(w) == w.up["mongo"]

\* the middleware without its guard: every request goes on to its handler
MiddlewareAlwaysNext(w) == TRUE

isMongoConnected(w) == w.mongoConnected

Unavailable(w, b) ==
    Reply(w, b, 503,
          [success |-> FALSE,
           message |-> "MongoDB is not running. Please install & start MongoDB, then restart the server."],
          0)

MongoMiddleware(w, b, out) ==
    IF ~isMongoConnected(w) THEN Unavailable(w, b) ELSE out

\* the middleware mounted on the application instead of the mongo router
RouterGuardAppWide(w, b, out) == MongoMiddleware(w, b, out)

RouterGuard(w, b, out) ==
    IF b = "mongo" THEN MongoMiddleware(w, b, out) ELSE out

(***************************************************************************)
(* server.js: app.use("/api/mongo", mongoRoutes), app.use("/api/mysql",    *)
(* mysqlRoutes), app.use("/api/sqlite", sqliteRoutes).  `strict` is the    *)
(* MySQL server's sql_mode, `order` the arrangement the store returned.    *)
(***************************************************************************)
HandlePost(w, b, body) ==
    RouterGuard(w, b,
        CASE b = "mongo"  -> mongoPost(w, body)
          [] b = "mysql"  -> mysqlPost(w, body)
          [] b = "sqlite" -> sqlitePost(w, body))

HandleList(w, b, order) ==
    RouterGuard(w, b,
        CASE b = "mongo"  -> mongoList(w, order)
          [] b = "mysql"  -> mysqlList(w, order)
          [] b = "sqlite" -> sqliteList(w, order))

HandleGet(w, b, id) ==
    RouterGuard(w, b,
        CASE b = "mongo"  -> mongoGet(w, id)
          [] b = "mysql"  -> mysqlGet(w, id)
          [] b = "sqlite" -> sqliteGet(w, id))

HandlePut(w, b, id, body, strict) ==
    RouterGuard(w, b,
        CASE b = "mongo"  -> mongoPut(w, id, body)
          [] b = "mysql"  -> mysqlPut(w, id, body, strict)
          [] b = "sqlite" -> sqlitePut(w, id, body))

HandleDelete(w, b, id, strict) ==
    RouterGuard(w, b,
        CASE b = "mongo"  -> mongoDelete(w, id)
          [] b = "mysql"  -> mysqlDelete(w, id, strict)
          [] b = "sqlite" -> sqliteDelete(w, id))

\* only the MySQL server has an sql_mode
SqlModes(b) == IF b = "mysql" THEN BOOLEAN ELSE {TRUE}

\* the mysql router writing through to the sqlite table as well
HandledMirrored(b, out) ==
    /\ rows' = IF b = "mysql"
                    THEN [rows EXCEPT !["mysql"] = out.rows, !["sqlite"] = out.rows]
                    ELSE [rows EXCEPT ![b] = out.rows]
    /\ nextId' = [nextId EXCEPT ![b] = out.nextId]
    /\ pc' = IF out.escaped THEN "crashed" ELSE pc
    /\ UNCHANGED <<up, mongoConnected, pool, db, schema, now>>
    /\ UNCHANGED elsewhere

\* a mongo handler that takes the adapter for lost when its store call threw
HandledMarksDown(b, out) ==
    /\ rows' = [rows EXCEPT ![b] = out.rows]
    /\ nextId' = [nextId EXCEPT ![b] = out.nextId]
    /\ pc' = IF out.escaped THEN "crashed" ELSE pc
    /\ mongoConnected' = IF b = "mongo" /\ out.status = 500 THEN FALSE ELSE mongoConnected
    /\ UNCHANGED <<up, pool, db, schema, now>>
    /\ UNCHANGED elsewhere

\* the handler's effects on the process: the store after it, and a process
\* that dies of an exception nobody caught; the response is `out`
Handled(b, out) ==
    /\ rows' = [rows EXCEPT ![b] = out.rows]
    /\ nextId' = [nextId EXCEPT ![b] = out.nextId]
    /\ pc' = IF out.escaped THEN "crashed" ELSE pc
    /\ UNCHANGED <<up, mongoConnected, pool, db, schema, now>>
    /\ UNCHANGED elsewhere

Post(b, body) ==
    /\ pc = "serving"
    /\ Inserted(World) < MaxRows
    /\ Handled(b, HandlePost(World, b, body))

List(b, order) ==
    /\ pc = "serving"
    /\ Handled(b, HandleList(World, b, order))

Get(b, id) ==
    /\ pc = "serving"
    /\ Handled(b, HandleGet(World, b, id))

Put(b, id, body, strict) ==
    /\ pc = "serving"
    /\ Handled(b, HandlePut(World, b, id, body, strict))

Delete(b, id, strict) ==
    /\ pc = "serving"
    /\ Handled(b, HandleDelete(World, b, id, strict))

Next ==
    \/ startServer
    \/ \E b \in Backends : StoreToggles(b)
    \/ \E b \in Backends, body \in Bodies : Post(b, body)
    \/ \E b \in Backends : \E order \in OrderedByCreatedDesc(b, rows[b]) : List(b, order)
    \/ \E b \in Backends, id \in PathIds : Get(b, id)
    \/ \E b \in Backends : \E id \in PathIds, body \in Bodies, strict \in SqlModes(b) :
            Put(b, id, body, strict)
    \/ \E b \in Backends : \E id \in PathIds, strict \in SqlModes(b) :
            Delete(b, id, strict)

Spec == Init /\ [][Next]_vars

(***************************************************************************)
(* The same process with the stores' clock running.  CURRENT_TIMESTAMP     *)
(* and Date.now advance between requests; before app.listen there is no    *)
(* row, so the ticks that matter come after it.  Here the requests carry   *)
(* well-formed bodies and each store stays as reachable as it was when     *)
(* the process was started.                                                *)
(***************************************************************************)
Tick ==
    /\ pc = "serving"
    /\ now < MaxClock
    /\ now' = now + 1
    /\ UNCHANGED <<pc, up, mongoConnected, pool, db, schema, rows, nextId>>
    /\ UNCHANGED elsewhere

ClockBodies == {BodyAnn, BodyBlankBob}

ClockNext ==
    \/ startServer
    \/ Tick
    \/ \E b \in Backends, body \in ClockBodies : Post(b, body)
    \/ \E b \in Backends : \E order \in OrderedByCreatedDesc(b, rows[b]) : List(b, order)
    \/ \E b \in Backends, id \in PathIds : Get(b, id)
    \/ \E b \in Backends : \E id \in PathIds, body \in ClockBodies, strict \in SqlModes(b) :
            Put(b, id, body, strict)
    \/ \E b \in Backends : \E id \in PathIds, strict \in SqlModes(b) :
            Delete(b, id, strict)

ClockSpec == Init /\ [][ClockNext]_vars

(***************************************************************************)
(* Mini Online Store API (app.js, middleware/, routes/, controllers/).     *)
(* A request is a method, a path (its segments), the authorization header  *)
(* and a body.  The application is a stack of layers in the order app.js   *)
(* registers them: express.json, express.static, logger, the /products     *)
(* router, auth and the /users router, GET /, the catch-all.  Every layer  *)
(* either answers or passes the request on; what the stack leaves behind   *)
(* is the response, the users array, whether the logger ran and which      *)
(* layer answered.                                                         *)
(***************************************************************************)
Methods == {"GET", "POST", "DELETE"}

Paths ==
    { <<>>, <<"products">>, <<"products", "1">>, <<"users">>, <<"users", "1">>,
      <<"users", "4">>, <<"users", "1abc">>, <<"users", "x">>,
      <<"users", "1", "orders">>, <<"js", "app.js">>, <<"nothing">> }

\* req.headers['authorization']: absent, empty, or some text
AuthHeaders == {Undefined, JsString(""), JsString("token")}

NoBody     == [kind |-> "none"]
Unparsable == [kind |-> "unparsable"]
JsonBody(o) == [kind |-> "json", value |-> o]

NewNames  == {"Dana", " "}
NewEmails == {"dana@example.com", "alice@example.com"}
NewRoles  == {"", "admin"}

StoreObjects ==
    { <<>>, [name |-> "Dana"], [email |-> "dana@example.com"],
      [name |-> "", email |-> "dana@example.com"],
      [name |-> "Dana", email |-> ""] }
    \cup [name : NewNames, email : NewEmails]
    \cup [name : {"Dana"}, email : {"dana@example.com"}, role : NewRoles]

StoreBodies == {NoBody, Unparsable} \cup {JsonBody(o) : o \in StoreObjects}

Requests == [method : Methods, path : Paths, auth : AuthHeaders, body : StoreBodies]

\* if (token), !name, role || 'customer': undefined and "" are falsy
Truthy(v) == ~IsUndefined(v) /\ v.value # ""

Answer(status, json, by, us) ==
    [status |-> status, json |-> json, by |-> by, users |-> us,
     logged |-> FALSE, sent |-> 1]

\* express.json(): req.body is the parsed object, {} without a body; a body
\* that is no JSON goes to Express's error handler, past every other layer
expressJson(us, req, next) ==
    IF req.body.kind = "unparsable"
        THEN Answer(400, [error |-> "SyntaxError"], "errorHandler", us)
        ELSE next

ReqBody(req) == IF req.body.kind = "json" THEN req.body.value ELSE <<>>

\* public/: index.html (served for /) and js/app.js
StaticFiles == { <<>>, <<"js", "app.js">> }

\* express.static: answers a GET for a file under public/, else calls next()
expressStatic(us, req, next) ==
    IF req.method = "GET" /\ req.path \in StaticFiles
        THEN Answer(200, [file |-> req.path], "static", us)
        ELSE next

\* logger: console.log(...); next()
logger(req, next) == [next EXCEPT !.logged = TRUE]


\* the characters of a path segment
Chars(seg) ==
    CASE seg = "1"    -> <<"1">>
      [] seg = "2"    -> <<"2">>
      [] seg = "3"    -> <<"3">>
      [] seg = "4"    -> <<"4">>
      [] seg = "1abc" -> <<"1", "a", "b", "c">>
      [] OTHER        -> <<"x">>

Digits == {"0", "1", "2", "3", "4", "5", "6", "7", "8", "9"}

DigitValue(c) ==
    CASE c = "0" -> 0 [] c = "1" -> 1 [] c = "2" -> 2 [] c = "3" -> 3
      [] c = "4" -> 4 [] c = "5" -> 5 [] c = "6" -> 6 [] c = "7" -> 7
      [] c = "8" -> 8 [] c = "9" -> 9

NaN == -1

RECURSIVE LeadingDigits(_, _)
LeadingDigits(cs, acc) ==
    IF cs # <<>> /\ Head(cs) \in Digits
        THEN LeadingDigits(Tail(cs), 10 * acc + DigitValue(Head(cs)))
        ELSE acc

\* parseInt(text, 10): the number its leading digits spell, NaN without one
parseInt10(cs) ==
    IF cs # <<>> /\ Head(cs) \in Digits THEN LeadingDigits(cs, 0) ELSE NaN

(***************************************************************************)
(* controllers/productController.js and controllers/userController.js.     *)
(***************************************************************************)
Products ==
    << [id |-> 1, name |-> "Wireless Mouse", category |-> "Electronics"],
       [id |-> 2, name |-> "Mechanical Keyboard", category |-> "Electronics"],
       [id |-> 3, name |-> "USB-C Hub", category |-> "Accessories"],
       [id |-> 4, name |-> "Laptop Stand", category |-> "Accessories"],
       [id |-> 5, name |-> "Noise-Cancelling Headphones", category |-> "Audio"] >>

getAllProducts(us, req) ==
    Answer(200, [success |-> TRUE, count |-> Len(Products), data |-> Products],
           "getAllProducts", us)

\* users.find((u) => u.id === userId): the first user with that id
Find(us, userId) ==
    LET hits == {i \in DOMAIN us : us[i].id = userId}
    IN  IF hits = {} THEN <<>>
        ELSE <<us[CHOOSE i \in hits : \A j \in hits : i <= j]>>

getUserById(us, req) ==
    LET userId == parseInt10(Chars(req.path[2]))
        user == Find(us, userId)
    IN  IF user # <<>>
            THEN Answer(200, [success |-> TRUE, data |-> user[1]], "getUserById", us)
            ELSE Answer(404, [success |-> FALSE, message |-> "User not found."],
                        "getUserById", us)

\* a validation that only asks whether the keys are there
MissingKeys(name, email) == IsUndefined(name) \/ IsUndefined(email)

\* if (!name || !email)
MissingRequired(name, email) == ~Truthy(name) \/ ~Truthy(email)

\* an id counted from zero
NewIdFromZero(us) == Len(us)

\* id: users.length + 1
NewId(us) == Len(us) + 1

\* unshift in place of push
Unshifted(us, newUser) == <<newUser>> \o us

\* users.push(newUser)
Pushed(us, newUser) == Append(us, newUser)

createUser(us, req) ==
    LET body == ReqBody(req)
        name == Destructure(body, "name")
        email == Destructure(body, "email")
        role == Destructure(body, "role")
        newUser == [id |-> NewId(us), name |-> name.value, email |-> email.value,
                    role |-> IF Truthy(role) THEN role.value ELSE "customer"]
    IN  IF MissingRequired(name, email)
            THEN Answer(400, [success |-> FALSE,
                              message |-> "Validation Error"], "createUser", us)
            ELSE Answer(201, [success |-> TRUE,
                              message |-> "User created successfully.",
                              data |-> newUser],
                        "createUser", Pushed(us, newUser))


(***************************************************************************)
(* middleware/auth.js, routes/products.js, routes/users.js and app.js.     *)
(***************************************************************************)
Unauthorized(us) ==
    Answer(401, [success |-> FALSE,
                 message |-> "Unauthorized - Please provide a valid token in the Authorization header."],
           "auth", us)

\* a bouncer that waves everybody through
authAlwaysNext(us, req, next) == next

auth(us, req, next) == IF Truthy(req.auth) THEN next ELSE Unauthorized(us)

\* app.use(prefix, ...): the path starts with the prefix
Mounted(prefix, req) == req.path # <<>> /\ req.path[1] = prefix

\* router.get('/', productController.getAllProducts)
productRoutes(us, req, next) ==
    IF req.method = "GET" /\ Len(req.path) = 1 THEN getAllProducts(us, req) ELSE next

\* router.get('/:id', getUserById); router.post('/', createUser)
userRoutes(us, req, next) ==
    IF req.method = "GET" /\ Len(req.path) = 2 THEN getUserById(us, req)
    ELSE IF req.method = "POST" /\ Len(req.path) = 1 THEN createUser(us, req)
    ELSE next

\* app.get('/', ...)
Welcome(us, req, next) ==
    IF req.method = "GET" /\ req.path = <<>>
        THEN Answer(200, [success |-> TRUE,
                          message |-> "Welcome to the Mini Online Store API!"],
                    "welcome", us)
        ELSE next

\* a catch-all that answers the welcome message
NotFoundAsWelcome(us, req) ==
    Answer(200, [success |-> TRUE, message |-> "Welcome to the Mini Online Store API!"],
           "catchAll", us)

\* app.use((req, res) => res.status(404).json(...))
RouteNotFound(us, req) ==
    Answer(404, [success |-> FALSE, message |-> "Route not found"], "catchAll", us)

\* the layers after the global middleware, in the order of app.js
Routes(us, req) ==
    LET last == Welcome(us, req, RouteNotFound(us, req))
        underUsers == IF Mounted("users", req)
                          THEN auth(us, req, userRoutes(us, req, last))
                          ELSE last
    IN  IF Mounted("products", req)
            THEN productRoutes(us, req, underUsers)
            ELSE underUsers

app(us, req) ==
    expressJson(us, req, expressStatic(us, req, logger(req, Routes(us, req))))

\* one request handled from its arrival to its response
StoreRequest(req) ==
    LET res == app(users, req)
    IN  /\ Len(res.users) <= Len(SeedUsers) + MaxNewUsers
        /\ users' = res.users
        /\ UNCHANGED outsideStore

StoreNext == \E req \in Requests : StoreRequest(req)

\* every program in its initial state, the stores of the CRUD server up
InitStoresUp == Init /\ up = [b \in Backends |-> TRUE]

StoreSpec == InitStoresUp /\ [][StoreNext]_vars


(***************************************************************************)
(* The weather logger: fetchWeather, saveToFile, startServer and main.     *)
(***************************************************************************)
Temperatures == {21, 35}
WindSpeeds   == {5, 12}
WeatherCodes == {0, 3}

\* response.data.current_weather
CurrentWeather ==
    [temperature : Temperatures, windspeed : WindSpeeds, weathercode : WeatherCodes]

\* what axios.get settles with: a rejection, a payload without
\* current_weather, or a payload with it
ApiResponses ==
    {[rejected |-> TRUE]}
        \cup {[rejected |-> FALSE, data |-> [reason |-> "bad request"]]}
        \cup {[rejected |-> FALSE, data |-> [current_weather |-> w]] : w \in CurrentWeather}

\* the lines of the report
Report(weather) ==
    [title |-> "Weather Report", temperature |-> weather.temperature,
     windspeed |-> weather.windspeed, weathercode |-> weather.weathercode]

\* fetchWeather: the report, or the exception that leaves it (a rejected
\* axios.get, or the TypeError of reading weather.time of undefined)
fetchWeather(response) ==
    IF response.rejected THEN [thrown |-> TRUE]
    ELSE IF "current_weather" \notin DOMAIN response.data THEN [thrown |-> TRUE]
    ELSE [thrown |-> FALSE, report |-> Report(response.data.current_weather)]

\* a main whose catch logs the error and goes on to the next step
mainGoesOn(thrown, onward) == onward

\* main: try { await step; ... } catch (error) { process.exit(1) }
mainTry(thrown, onward) == IF thrown THEN "exited" ELSE onward

\* process.exit(1) in main's catch
ExitCodeAfter(thrown) == IF thrown THEN <<1>> ELSE exitCode

\* const weatherReport = await fetchWeather()
fetchWeatherSettles(response) ==
    /\ wpc = "fetchWeather"
    /\ wpc' = mainTry(fetchWeather(response).thrown, "saveToFile")
    /\ weatherReport' = IF fetchWeather(response).thrown
                            THEN weatherReport
                            ELSE fetchWeather(response).report
    /\ exitCode' = ExitCodeAfter(fetchWeather(response).thrown)
    /\ UNCHANGED <<logFile, reads, lastStatus>>
    /\ UNCHANGED outsideWeather

\* await saveToFile(weatherReport): fs.writeFile calls back with or without
\* an error; without one main goes on to startServer(), which calls
\* server.listen
saveToFileSettles(err) ==
    /\ wpc = "saveToFile"
    /\ wpc' = mainTry(err, "startServer")
    /\ logFile' = IF err THEN logFile ELSE weatherReport
    /\ exitCode' = ExitCodeAfter(err)
    /\ UNCHANGED <<weatherReport, reads, lastStatus>>
    /\ UNCHANGED outsideWeather

\* server.listen(PORT, ...): the port is bound, or the server emits an
\* 'error' nobody listens to and the process dies of it
serverListen(err) ==
    /\ wpc = "startServer"
    /\ wpc' = IF err THEN "exited" ELSE "listening"
    /\ exitCode' = ExitCodeAfter(err)
    /\ UNCHANGED <<weatherReport, logFile, reads, lastStatus>>
    /\ UNCHANGED outsideWeather

Urls == {"/", "/favicon.ico"}

\* http.createServer((req, res) => ...): "/" starts a read of the log file,
\* any other url is answered 404
request(url) ==
    /\ wpc = "listening"
    /\ IF url = "/"
           THEN /\ reads < MaxReads
                /\ reads' = reads + 1
                /\ UNCHANGED lastStatus
           ELSE /\ lastStatus' = <<404>>
                /\ UNCHANGED reads
    /\ UNCHANGED <<wpc, weatherReport, logFile, exitCode>>
    /\ UNCHANGED outsideWeather

\* the callback of fs.readFile(LOG_FILE, "utf8", ...)
readFileCallback(err) ==
    /\ wpc = "listening"
    /\ reads > 0
    /\ reads' = reads - 1
    /\ lastStatus' = IF err THEN <<500>> ELSE <<200>>
    /\ UNCHANGED <<wpc, weatherReport, logFile, exitCode>>
    /\ UNCHANGED outsideWeather

WeatherNext ==
    \/ \E response \in ApiResponses : fetchWeatherSettles(response)
    \/ \E err \in BOOLEAN : saveToFileSettles(err)
    \/ \E err \in BOOLEAN : serverListen(err)
    \/ \E url \in Urls : request(url)
    \/ \E err \in BOOLEAN : readFileCallback(err)

WeatherSpec == InitStoresUp /\ [][WeatherNext]_vars


(***************************************************************************)
(* The CRUD server with several requests under way.  A mongo or mysql      *)
(* handler runs up to its await, its one statement runs in the store at    *)
(* some later moment, and the handler answers from the statement's result; *)
(* a sqlite handler runs from its first line to its response without       *)
(* yielding (better-sqlite3 is synchronous).                               *)
(***************************************************************************)
BurstRequests ==
    {[kind |-> "POST", b |-> b, id |-> "", body |-> BodyAnn] : b \in Backends}
        \cup {[kind |-> "PUT", b |-> b, id |-> "1", body |-> BodyBlankBob] : b \in Backends}
        \cup {[kind |-> "DELETE", b |-> b, id |-> "1", body |-> <<>>] : b \in Backends}

\* the handler of a request, run in the world w
Run(w, req) ==
    CASE req.kind = "POST"   -> HandlePost(w, req.b, req.body)
      [] req.kind = "PUT"    -> HandlePut(w, req.b, req.id, req.body, TRUE)
      [] req.kind = "DELETE" -> HandleDelete(w, req.b, req.id, TRUE)

\* the handler is suspended at its await
Waiting == [status |-> 0]

Executed(call) == call.out.status # 0

\* the stores as they were when the burst began
Snapshot == [World EXCEPT !.rows = base.rows, !.nextId = base.nextId]

\* a statement that works on the rows as they were when the burst began
StoreAtArrival(current, arrival) == arrival

\* await pool.execute(..) / await MongoUser.findByIdAndUpdate(..): the
\* statement runs on the store as it is at that moment
StoreAt(current, arrival) == current

\* a request arrives while others are under way
Arrive(req) ==
    /\ pc = "serving"
    /\ Len(inflight) < MaxInflight
    /\ \A i \in DOMAIN inflight : inflight[i].req.b = req.b
    /\ req.kind = "POST" =>
           Inserted(World) + Cardinality({i \in DOMAIN inflight :
                                             /\ ~Executed(inflight[i])
                                             /\ inflight[i].req.kind = "POST"}) < MaxRows
    /\ IF req.b = "sqlite"
           THEN /\ inflight' = Append(inflight, [req |-> req, out |-> Run(World, req)])
                /\ rows' = [rows EXCEPT ![req.b] = Run(World, req).rows]
                /\ nextId' = [nextId EXCEPT ![req.b] = Run(World, req).nextId]
           ELSE /\ inflight' = Append(inflight, [req |-> req, out |-> Waiting])
                /\ UNCHANGED <<rows, nextId>>
    /\ UNCHANGED <<pc, up, mongoConnected, pool, db, schema, now, base>>
    /\ UNCHANGED <<storeVars, weatherVars>>

\* the store runs the statement of a suspended handler, which then answers
Execute(i) ==
    /\ i \in DOMAIN inflight
    /\ ~Executed(inflight[i])
    /\ LET req == inflight[i].req
           out == Run(StoreAt(World, Snapshot), req)
       IN  /\ inflight' = [inflight EXCEPT ![i].out = out]
           /\ rows' = [rows EXCEPT ![req.b] = out.rows]
           /\ nextId' = [nextId EXCEPT ![req.b] = out.nextId]
    /\ UNCHANGED <<pc, up, mongoConnected, pool, db, schema, now, base>>
    /\ UNCHANGED <<storeVars, weatherVars>>

\* every handler of the burst has answered
Quiesce ==
    /\ inflight # <<>>
    /\ \A i \in DOMAIN inflight : Executed(inflight[i])
    /\ inflight' = <<>>
    /\ base' = [rows |-> rows, nextId |-> nextId]
    /\ UNCHANGED crudVars
    /\ UNCHANGED <<storeVars, weatherVars>>

BurstNext ==
    \/ startServer
    \/ \E req \in BurstRequests : Arrive(req)
    \/ \E i \in 1 .. MaxInflight : Execute(i)
    \/ Quiesce

BurstSpec == InitStoresUp /\ [][BurstNext]_vars

(***************************************************************************)
(* Vocabulary of the properties.                                           *)
(***************************************************************************)
Serving == pc = "serving"

\* the world after a handler that left `out`
After(w, b, out) ==
    [w EXCEPT !.rows[b] = out.rows, !.nextId[b] = out.nextId]

\* the identifier of a stored record as a client writes it in a path
PathOf(b, r) == IF b = "mongo" THEN r._id ELSE ToString(r.id)

Stored(w, b, id) == {r \in w.rows[b] : PathOf(b, r) = id}

\* the adapter was initialised at startup and its store can be reached now
Usable(w, b) ==
    CASE b = "mongo"  -> w.mongoConnected /\ w.up["mongo"]
      [] b = "mysql"  -> w.pool = "created" /\ w.up["mysql"] /\ "mysql" \in w.schema
      [] b = "sqlite" -> w.db = "open" /\ w.up["sqlite"] /\ "sqlite" \in w.schema

\* a text without its leading and trailing blanks
RECURSIVE TrimLeft(_)
TrimLeft(t) == IF t # <<>> /\ Head(t) = " " THEN TrimLeft(Tail(t)) ELSE t

RECURSIVE TrimRight(_)
TrimRight(t) ==
    IF t # <<>> /\ t[Len(t)] = " " THEN TrimRight(SubSeq(t, 1, Len(t) - 1)) ELSE t

Trim(t) == TrimRight(TrimLeft(t))

\* name, email or phone missing, or empty after trimming
LacksField(body) ==
    \E k \in {"name", "email", "phone"} : k \notin DOMAIN body \/ Trim(body[k]) = <<>>

SameFields(r, body) ==
    r.name = body.name /\ r.email = body.email /\ r.phone = body.phone

\* P holds of every response the five operations of backend b can give in
\* world w
EveryResponse(w, b, P(_)) ==
    /\ \A body \in Bodies : P(HandlePost(w, b, body))
    /\ \A order \in OrderedByCreatedDesc(b, w.rows[b]) : P(HandleList(w, b, order))
    /\ \A id \in PathIds : P(HandleGet(w, b, id))
    /\ \A id \in PathIds, body \in Bodies, strict \in SqlModes(b) :
            P(HandlePut(w, b, id, body, strict))
    /\ \A id \in PathIds, strict \in SqlModes(b) : P(HandleDelete(w, b, id, strict))

(***************************************************************************)
(* C1.  Create then read: when POST /users answers 201, a GET /users/:id   *)
(* with the id it returned, handled next, answers 200 with the submitted   *)
(* name, email and phone, on each backend.                                 *)
(***************************************************************************)
ReturnedId(b, data) == IF b = "mongo" THEN data._id ELSE ToString(data.id)

C1_CreateThenGet ==
    Serving =>
        \A b \in Backends, body \in Bodies :
            LET post == HandlePost(World, b, body)
            IN  post.status = 201 =>
                    LET get == HandleGet(After(World, b, post), b,
                                         ReturnedId(b, post.json.data))
                    IN  /\ get.status = 200
                        /\ get.json.success
                        /\ SameFields(get.json.data, body)
                        /\ SameFields(post.json.data, body)

C1_Witness ==
    /\ Serving
    /\ \E r \in rows["mongo"] :
            SameFields(r, BodyAnn) /\ HandleGet(World, "mongo", r._id).status = 200
    /\ \E r \in rows["sqlite"] :
            /\ SameFields(r, BodyBlankBob)
            /\ HandleGet(World, "sqlite", ToString(r.id)).json.data = r

(***************************************************************************)
(* C2.  Validation: on POST /users and PUT /users/:id of every backend, a  *)
(* body whose name, email or phone is missing or empty after trimming is   *)
(* answered 400 with success:false and the store is left unchanged.        *)
(***************************************************************************)
RejectedAsClientError(b, out) ==
    out.status = 400 /\ ~out.json.success /\ out.rows = rows[b]

C2_ValidationRejected ==
    Serving =>
        \A b \in Backends, body \in Bodies :
            LacksField(body) =>
                /\ RejectedAsClientError(b, HandlePost(World, b, body))
                /\ \A id \in PathIds, strict \in SqlModes(b) :
                        RejectedAsClientError(b, HandlePut(World, b, id, body, strict))

(***************************************************************************)
(* C3.  Deleting an id that matches no stored record.                      *)
(* As claimed: DELETE /users/:id answers 404 with success:false, never     *)
(* 200, in every reachable state, on each backend.                         *)
(* As amended: it never answers 200 and never changes the store; it        *)
(* answers 404 with success:false whenever the adapter was initialised at  *)
(* startup, its store is reachable and the id is well-formed; otherwise    *)
(* it answers 503 (mongo adapter not ready), 500 (the store call failed)   *)
(* or 404.                                                                 *)
(***************************************************************************)
IsNotFound(out) ==
    /\ out.status = 404
    /\ ~out.json.success
    /\ "message" \in DOMAIN out.json

C3_DeleteAbsentIs404 ==
    Serving =>
        \A b \in Backends : \A id \in PathIds, strict \in SqlModes(b) :
            Stored(World, b, id) = {} => IsNotFound(HandleDelete(World, b, id, strict))

C3_DeleteAbsentNever200 ==
    Serving =>
        \A b \in Backends : \A id \in PathIds, strict \in SqlModes(b) :
            LET out == HandleDelete(World, b, id, strict)
            IN  Stored(World, b, id) = {} =>
                    /\ out.status \in {404, 500, 503}
                    /\ ~out.json.success
                    /\ out.rows = rows[b]
                    /\ Usable(World, b) /\ WellFormed(id) => IsNotFound(out)
                    /\ out.status = 503 => b = "mongo" /\ ~mongoConnected
                    /\ out.status = 500 => out.thrown # "none"

C3_Witness ==
    /\ Serving
    /\ rows["sqlite"] # {}
    /\ Stored(World, "sqlite", ToString(MaxRows + 1)) = {}
    /\ IsNotFound(HandleDelete(World, "sqlite", ToString(MaxRows + 1), TRUE))
    /\ HandleDelete(World, "mongo", ToString(MaxRows + 1), TRUE).status = 503

(***************************************************************************)
(* C4.  While isMongoConnected() is false, every request under /api/mongo  *)
(* (list, get, create, update, delete) is answered 503 with success:false  *)
(* and a message, and no MongoUser call is made for it.                    *)
(***************************************************************************)
FailedFast(out) ==
    /\ out.status = 503
    /\ ~out.json.success
    /\ "message" \in DOMAIN out.json
    /\ out.calls = 0
    /\ out.rows = rows["mongo"]

C4_NotReadyIs503 ==
    Serving /\ ~mongoConnected => EveryResponse(World, "mongo", FailedFast)

C4_Witness ==
    /\ Serving
    /\ ~mongoConnected
    /\ up["mongo"]
    /\ HandlePost(World, "mongo", BodyAnn).status = 503

(***************************************************************************)
(* C5.  When /api/mongo answers 503.                                       *)
(* As claimed: a request is answered 503 exactly when the document store   *)
(* is down at the time the request is handled.                             *)
(* As amended: a request is answered 503 exactly when the connection       *)
(* attempt made at startup failed; the flag is written by connectMongoDB   *)
(* alone, so a store that goes down after a successful startup is not      *)
(* answered 503 (its requests fail with 500), and a store that comes up    *)
(* after a failed startup is still answered 503.                           *)
(***************************************************************************)
Is503IffDown(out) == out.status = 503 <=> ~up["mongo"]

C5_503IffDownAtCallTime ==
    Serving => EveryResponse(World, "mongo", Is503IffDown)

Is503IffFlagDown(out) ==
    /\ out.status = 503 <=> ~mongoConnected
    /\ mongoConnected /\ ~up["mongo"] => out.status = 500

C5_FlagFollowsStartup ==
    /\ [][/\ connectMongoDB => mongoConnected' = up["mongo"]
          /\ ~connectMongoDB => mongoConnected' = mongoConnected]_vars
    /\ [](Serving => EveryResponse(World, "mongo", Is503IffFlagDown))

C5_Witness ==
    /\ Serving
    /\ mongoConnected
    /\ ~up["mongo"]
    /\ HandleGet(World, "mongo", "1").status = 500

(***************************************************************************)
(* C6.  The responses of /api/mysql and /api/sqlite, and the contents of   *)
(* their stores after a request, do not depend on the document store: in   *)
(* every reachable state each of their requests gets the same response     *)
(* and leaves the same store whether the document store is up or down,     *)
(* connected or not, empty or not.                                         *)
(***************************************************************************)
MongoVariants(w) ==
    {[w EXCEPT !.up["mongo"] = u, !.mongoConnected = c, !.rows["mongo"] = m.rows,
               !.nextId["mongo"] = m.nextId]
        : u \in BOOLEAN, c \in BOOLEAN,
          m \in {[rows |-> w.rows["mongo"], nextId |-> w.nextId["mongo"]],
                 [rows |-> {}, nextId |-> 1]}}

SameOutcome(x, y) ==
    /\ x.status = y.status
    /\ x.json = y.json
    /\ x.rows = y.rows
    /\ x.nextId = y.nextId
    /\ x.escaped = y.escaped

\* every request to backend b is answered in each world of V as it is in w
SameResponses(w, V, b) ==
    /\ \A body \in Bodies :
            LET x == HandlePost(w, b, body)
            IN  \A v \in V : SameOutcome(x, HandlePost(v, b, body))
    /\ \A order \in OrderedByCreatedDesc(b, w.rows[b]) :
            LET x == HandleList(w, b, order)
            IN  \A v \in V : SameOutcome(x, HandleList(v, b, order))
    /\ \A id \in PathIds :
            LET x == HandleGet(w, b, id)
            IN  \A v \in V : SameOutcome(x, HandleGet(v, b, id))
    /\ \A id \in PathIds, body \in Bodies, strict \in SqlModes(b) :
            LET x == HandlePut(w, b, id, body, strict)
            IN  \A v \in V : SameOutcome(x, HandlePut(v, b, id, body, strict))
    /\ \A id \in PathIds, strict \in SqlModes(b) :
            LET x == HandleDelete(w, b, id, strict)
            IN  \A v \in V : SameOutcome(x, HandleDelete(v, b, id, strict))

C6_SqlIndependentOfMongo ==
    [](Serving =>
          \A b \in {"mysql", "sqlite"} :
              SameResponses(World, MongoVariants(World) \ {World}, b))

C6_Witness ==
    /\ Serving
    /\ ~mongoConnected
    /\ ~up["mongo"]
    /\ HandleList(World, "mongo", <<>>).status = 503
    /\ rows["mysql"] # {}
    /\ rows["sqlite"] # {}
    /\ HandleGet(World, "mysql", "1").status = 200
    /\ HandleGet(World, "sqlite", "1").status = 200

(***************************************************************************)
(* C7.  A backend whose initialisation fails at startup does not abort     *)
(* the process: startServer reaches app.listen whatever the three connect  *)
(* functions met, and a backend whose initialisation succeeded and whose   *)
(* store is reachable lists its users, reads them and creates one.         *)
(***************************************************************************)
ServesNormally(w, b) ==
    /\ \A order \in OrderedByCreatedDesc(b, w.rows[b]) :
            HandleList(w, b, order).status = 200
    /\ \A id \in PathIds : Stored(w, b, id) # {} => HandleGet(w, b, id).status = 200
    /\ HandlePost(w, b, BodyAnn).status = 201

C7_StartupSurvivesFailures ==
    /\ <>Serving
    /\ [](pc # "crashed")
    /\ [](Serving => \A b \in Backends : Usable(World, b) => ServesNormally(World, b))

C7_Witness ==
    /\ Serving
    /\ ~mongoConnected
    /\ "mysql" \notin schema
    /\ Usable(World, "sqlite")
    /\ rows["sqlite"] # {}

(***************************************************************************)
(* C8.  Every response of every /api/<backend>/users operation is an       *)
(* envelope with a boolean success field; a response with success:false    *)
(* has status 400, 404, 500 or 503 and carries a message.                  *)
(***************************************************************************)
IsEnvelope(out) ==
    /\ "success" \in DOMAIN out.json
    /\ out.json.success \in BOOLEAN
    /\ out.json.success <=> out.status \in {200, 201}
    /\ ~out.json.success =>
            /\ out.status \in {400, 404, 500, 503}
            /\ "message" \in DOMAIN out.json

C8_EveryResponseIsEnvelope ==
    Serving => \A b \in Backends : EveryResponse(World, b, IsEnvelope)

C8_Witness ==
    /\ Serving
    /\ HandleList(World, "mongo", <<>>).status = 503
    /\ HandlePost(World, "mysql", BodyNoEmail).status = 500
    /\ rows["sqlite"] # {}
    /\ HandleGet(World, "sqlite", ToString(MaxRows + 1)).status = 404
    /\ HandleGet(World, "sqlite", "1").status = 200

(***************************************************************************)
(* C9.  No failure leaves a route handler: whatever is thrown while a      *)
(* request is handled (a failed store call, an adapter that startup left   *)
(* uninitialised) is caught and answered 500 with the error's message,     *)
(* and the process goes on serving.                                        *)
(***************************************************************************)
CaughtAs500(out) ==
    /\ ~out.escaped
    /\ out.thrown # "none" =>
            /\ out.status = 500
            /\ ~out.json.success
            /\ out.json.message = out.thrown

Is500(out) == out.status = 500 /\ out.thrown # "none"

C9_NoFailureEscapes ==
    /\ [](Serving => \A b \in Backends : EveryResponse(World, b, CaughtAs500))
    /\ [](Serving /\ db = "undefined" => EveryResponse(World, "sqlite", Is500))
    /\ [][Serving => Serving']_vars

C9_Witness ==
    /\ Serving
    /\ db = "undefined"
    /\ HandleList(World, "sqlite", <<>>).thrown # "none"
    /\ mongoConnected /\ ~up["mongo"]
    /\ HandlePost(World, "mongo", BodyAnn).status = 500
    /\ rows["mysql"] # {}

(***************************************************************************)
(* C10.  GET /users/:id.                                                   *)
(* As claimed: 200 with the stored record when a record has that id, 404   *)
(* with success:false and a message when none has, and no other status     *)
(* for an absent id, on each backend.                                      *)
(* As amended: that holds while the backend's adapter was initialised at   *)
(* startup and its store is reachable, for a well-formed id; an id that    *)
(* is no ObjectId is answered 500 by mongo (404 by mysql and sqlite); an   *)
(* adapter that is not usable answers 503 (mongo not ready) or 500, never  *)
(* 200 or 404.                                                             *)
(***************************************************************************)
IsFound(out, found) ==
    /\ out.status = 200
    /\ out.json.success
    /\ out.json.data \in found

C10_GetFoundOr404 ==
    Serving =>
        \A b \in Backends, id \in PathIds :
            LET out == HandleGet(World, b, id)
                found == Stored(World, b, id)
            IN  IF found # {} THEN IsFound(out, found) ELSE IsNotFound(out)

C10_GetFoundOr404WhenUsable ==
    Serving =>
        \A b \in Backends, id \in PathIds :
            LET out == HandleGet(World, b, id)
                found == Stored(World, b, id)
            IN  /\ Usable(World, b) /\ found # {} => IsFound(out, found)
                /\ Usable(World, b) /\ found = {} /\ (WellFormed(id) \/ b # "mongo")
                        => IsNotFound(out)
                /\ Usable(World, b) /\ ~WellFormed(id) /\ b = "mongo" => Is500(out)
                /\ ~Usable(World, b) =>
                        /\ out.status \in {500, 503}
                        /\ out.status = 503 <=> b = "mongo" /\ ~mongoConnected
                /\ out.rows = rows[b]

C10_Witness ==
    /\ Serving
    /\ Usable(World, "mongo")
    /\ rows["mongo"] # {}
    /\ IsFound(HandleGet(World, "mongo", "1"), rows["mongo"])
    /\ IsNotFound(HandleGet(World, "mongo", ToString(MaxRows + 1)))
    /\ HandleGet(World, "mongo", "x").status = 500

(***************************************************************************)
(* C11.  PUT /users/:id.                                                   *)
(* As claimed: 200 with the updated record when a record has that id, 404  *)
(* when none has, and in the 404 case the store is unchanged, on each      *)
(* backend.                                                                *)
(* As amended: that holds while the adapter was initialised at startup,    *)
(* its store is reachable, the id is well-formed and the body is one the   *)
(* store accepts (all three fields for mysql and sqlite; no empty field    *)
(* for mongo).  Otherwise the answer is 503 (mongo not ready) or 500 (the  *)
(* store call failed), for present and absent ids alike.  In every case a  *)
(* PUT creates no record and removes none, and an answer other than 200    *)
(* leaves the store unchanged.                                             *)
(***************************************************************************)
PutAccepted(b, body) ==
    IF b = "mongo"
        THEN \A k \in DOMAIN body : body[k] # <<>>
        ELSE {"name", "email", "phone"} \subseteq DOMAIN body

FieldsApplied(r, body) == \A k \in DOMAIN body : r[k] = body[k]

Ids(b, S) == {PathOf(b, r) : r \in S}

C11_PutFoundOr404 ==
    Serving =>
        \A b \in Backends : \A id \in PathIds, body \in Bodies, strict \in SqlModes(b) :
            LET out == HandlePut(World, b, id, body, strict)
            IN  IF Stored(World, b, id) # {}
                    THEN out.status = 200 /\ out.json.success
                    ELSE IsNotFound(out) /\ out.rows = rows[b]

C11_PutFoundOr404WhenAccepted ==
    Serving =>
        \A b \in Backends : \A id \in PathIds, body \in Bodies, strict \in SqlModes(b) :
            LET out == HandlePut(World, b, id, body, strict)
                found == Stored(World, b, id)
                ok == Usable(World, b) /\ PutAccepted(b, body)
            IN  /\ ok /\ found # {} =>
                    /\ out.status = 200
                    /\ out.json.success
                    /\ PathOf(b, out.json.data) = id
                    /\ FieldsApplied(out.json.data, body)
                    /\ \E r \in out.rows : PathOf(b, r) = id /\ FieldsApplied(r, body)
                /\ ok /\ found = {} /\ WellFormed(id) => IsNotFound(out)
                /\ ~ok => out.status \in {500, 503}
                /\ out.status = 503 <=> b = "mongo" /\ ~mongoConnected
                /\ found = {} => out.status # 200
                /\ out.status # 200 => out.rows = rows[b]
                /\ Ids(b, out.rows) = Ids(b, rows[b])

C11_Witness ==
    /\ Serving
    /\ rows["sqlite"] # {}
    /\ HandlePut(World, "sqlite", "1", BodyBlankBob, TRUE).status = 200
    /\ HandlePut(World, "sqlite", "1", BodyBlankBob, TRUE).rows # rows["sqlite"]
    /\ IsNotFound(HandlePut(World, "sqlite", ToString(MaxRows + 1), BodyAnn, TRUE))
    /\ HandlePut(World, "mysql", "1", BodyNoEmail, TRUE).status = 500
    /\ HandlePut(World, "mongo", "1", BodyAnn, TRUE).status = 503

(***************************************************************************)
(* C12.  Frame of a successful update: when PUT /users/:id answers 200,    *)
(* the record with that id keeps its id and createdAt, its updatedAt is    *)
(* the store's clock at the update, and every other stored record is       *)
(* unchanged, on each of the three backends.                               *)
(***************************************************************************)
Updated(b, r) == IF b = "mongo" THEN r.updatedAt ELSE r.updated_at

KeepsFrame(b, id, before, after) ==
    \E old \in before, new \in after :
        /\ PathOf(b, old) = id
        /\ PathOf(b, new) = id
        /\ Created(b, new) = Created(b, old)
        /\ after \ {new} = before \ {old}

C12_UpdateFrame ==
    Serving =>
        \A b \in Backends : \A id \in PathIds, body \in Bodies, strict \in SqlModes(b) :
            LET out == HandlePut(World, b, id, body, strict)
            IN  out.status = 200 =>
                    /\ KeepsFrame(b, id, rows[b], out.rows)
                    /\ \A new \in out.rows : PathOf(b, new) = id => Updated(b, new) = now

(***************************************************************************)
(* C13.  Update is idempotent in effect: when PUT /users/:id answers 200,  *)
(* the same PUT applied again, at once or a clock tick later, answers 200  *)
(* too and leaves the record with the same name, email and phone; only     *)
(* updatedAt may differ.                                                   *)
(***************************************************************************)
StoredFields(b, S, id) ==
    {<<r.name, r.email, r.phone>> : r \in {x \in S : PathOf(b, x) = id}}

Payload(r) == [name |-> r.name, email |-> r.email, phone |-> r.phone]

C13_UpdateIdempotent ==
    Serving =>
        \A b \in Backends : \A id \in PathIds, body \in Bodies, strict \in SqlModes(b) :
            LET once == HandlePut(World, b, id, body, strict)
            IN  once.status = 200 =>
                    \A t \in {now, now + 1} :
                        LET later == [After(World, b, once) EXCEPT !.now = t]
                            twice == HandlePut(later, b, id, body, strict)
                        IN  /\ twice.status = 200
                            /\ twice.json.success
                            /\ StoredFields(b, twice.rows, id)
                                    = StoredFields(b, once.rows, id)
                            /\ Payload(twice.json.data) = Payload(once.json.data)
                            /\ Ids(b, twice.rows) = Ids(b, once.rows)

C13_Witness ==
    /\ Serving
    /\ \E r \in rows["mysql"] :
            /\ r.updated_at > r.created_at
            /\ HandlePut(World, "mysql", ToString(r.id), Payload(r), TRUE).status = 200
    /\ \E r \in rows["sqlite"] :
            /\ r.updated_at > r.created_at
            /\ HandlePut(World, "sqlite", ToString(r.id), Payload(r), TRUE).status = 200

(***************************************************************************)
(* C14.  Delete is a hard delete.  When DELETE /users/:id answers 200 the  *)
(* record is gone from the store and every other record is unchanged; a    *)
(* GET, a DELETE or a PUT (with a body the store accepts) of the same id    *)
(* handled next answers 404 and GET /users does not list it.  An id the    *)
(* store has assigned and no longer holds never comes back, and it is      *)
(* answered 404 for as long as the adapter stays usable.                   *)
(***************************************************************************)
GoneFrom(w, b, id) ==
    /\ Stored(w, b, id) = {}
    /\ IsNotFound(HandleGet(w, b, id))
    /\ \A strict \in SqlModes(b) : IsNotFound(HandleDelete(w, b, id, strict))
    /\ \A body \in Bodies, strict \in SqlModes(b) :
            PutAccepted(b, body) => IsNotFound(HandlePut(w, b, id, body, strict))
    /\ \A order \in OrderedByCreatedDesc(b, w.rows[b]) :
            LET list == HandleList(w, b, order)
            IN  /\ list.status = 200
                /\ \A i \in DOMAIN list.json.data : PathOf(b, list.json.data[i]) # id

\* the store assigned this id once and holds no record of it now
Retired(w, b, id) ==
    WellFormed(id) /\ ParseId(id) < w.nextId[b] /\ Stored(w, b, id) = {}

CreatedLater(b, r, q) == ParseId(PathOf(b, r)) > ParseId(PathOf(b, q))

C15_ListNewestFirst ==
    Serving =>
        \A b \in Backends : \A order \in OrderedByCreatedDesc(b, rows[b]) :
            LET list == HandleList(World, b, order)
            IN  list.status = 200 =>
                    LET data == list.json.data
                    IN  /\ {data[i] : i \in DOMAIN data} = rows[b]
                        /\ Len(data) = Cardinality(rows[b])
                        /\ \A i, j \in DOMAIN data :
                                CreatedLater(b, data[i], data[j]) => i < j

(***************************************************************************)
(* C16.  GET /users on a store that holds no record, because none was      *)
(* created or because every created one was deleted, succeeds: 200,        *)
(* success:true and data the empty sequence (length 0), on each backend    *)
(* whose adapter is usable; an empty store is never the reason of an       *)
(* error answer.                                                           *)
(***************************************************************************)
IsEmptyList(out) ==
    /\ out.status = 200
    /\ out.json.success
    /\ out.json.data = <<>>
    /\ Len(out.json.data) = 0
    /\ out.thrown = "none"

C17_ListAlways200 ==
    Serving =>
        \A b \in Backends : \A order \in OrderedByCreatedDesc(b, rows[b]) :
            HandleList(World, b, order).status = 200

C17_List200IffUsable ==
    Serving =>
        \A b \in Backends : \A order \in OrderedByCreatedDesc(b, rows[b]) :
            LET out == HandleList(World, b, order)
            IN  /\ out.status = 200 <=> Usable(World, b)
                /\ out.status = 200 =>
                        /\ out.json.success
                        /\ {out.json.data[i] : i \in DOMAIN out.json.data} = rows[b]
                /\ out.status # 200 =>
                        /\ out.status \in {500, 503}
                        /\ ~out.json.success
                        /\ "message" \in DOMAIN out.json
                /\ out.status = 503 <=> b = "mongo" /\ ~mongoConnected
                /\ out.status = 500 => out.thrown # "none"
                /\ out.rows = rows[b]

C17_Witness ==
    /\ Serving
    /\ HandleList(World, "mongo", <<>>).status = 503
    /\ pool = "created"
    /\ HandleList(World, "mysql", <<>>).status = 500
    /\ rows["sqlite"] # {}
    /\ \A order \in OrderedByCreatedDesc("sqlite", rows["sqlite"]) :
            HandleList(World, "sqlite", order).status = 200

(***************************************************************************)
(* C18.  A successful POST /users answers 201 with data the created user:  *)
(* the submitted name, email and phone and the id the store assigned to    *)
(* the one new row, an id no stored record had; on mysql and sqlite the    *)
(* id is a positive integer.                                               *)
(***************************************************************************)
IsCreatedUser(b, out, body) ==
    /\ out.json.success
    /\ SameFields(out.json.data, body)
    /\ Stored(World, b, ReturnedId(b, out.json.data)) = {}
    /\ \E new \in out.rows :
            /\ new \notin rows[b]
            /\ out.rows = rows[b] \cup {new}
            /\ PathOf(b, new) = ReturnedId(b, out.json.data)
            /\ SameFields(new, body)
    /\ b # "mongo" => out.json.data.id \in Nat \ {0}

C18_PostReturnsCreatedUser ==
    Serving =>
        \A b \in Backends, body \in Bodies :
            LET out == HandlePost(World, b, body)
            IN  /\ out.status = 201 => IsCreatedUser(b, out, body)
                /\ out.status # 201 => out.rows = rows[b] /\ ~out.json.success

C18_Witness ==
    /\ Serving
    /\ rows["mysql"] # {}
    /\ HandlePost(World, "mysql", BodyBlankBob).status = 201
    /\ HandlePost(World, "mysql", BodyBlankBob).json.data.id = 2
    /\ HandlePost(World, "mongo", BodyAnn).status = 201
    /\ HandlePost(World, "sqlite", BodyAnn).status = 201
    /\ HandlePost(World, "sqlite", BodyAnn).json.data.id = 1

(***************************************************************************)
(* C19.  No operation is retried: every request hands at most one call to  *)
(* its store, and when that call fails the handler answers the error (500  *)
(* with the error's message) without a second call and without a change    *)
(* to the store.                                                           *)
(***************************************************************************)
NotRetried(b, out) ==
    /\ out.calls \in {0, 1}
    /\ out.thrown # "none" =>
            /\ out.status = 500
            /\ out.json.message = out.thrown
            /\ out.rows = rows[b]
    /\ out.rows # rows[b] => out.calls = 1

WriteUnder(b) ==
    \/ \E body \in Bodies : Post(b, body)
    \/ \E id \in PathIds, body \in Bodies, strict \in SqlModes(b) : Put(b, id, body, strict)
    \/ \E id \in PathIds, strict \in SqlModes(b) : Delete(b, id, strict)

C20_BackendsIndependent ==
    [][/\ \A c \in Backends :
            rows'[c] # rows[c] \/ nextId'[c] # nextId[c] =>
                /\ WriteUnder(c)
                /\ \A b \in Backends \ {c} : ~WriteUnder(b)
       /\ Cardinality({c \in Backends : rows'[c] # rows[c]}) <= 1]_vars

C20_Witness ==
    /\ Serving
    /\ rows["mysql"] # {}
    /\ rows["sqlite"] # {}
    /\ rows["mongo"] = {}
    /\ \A r \in rows["mysql"] : SameFields(r, BodyAnn)
    /\ \A r \in rows["sqlite"] : SameFields(r, BodyBlankBob)

(***************************************************************************)
(* Vocabulary of the Mini Online Store properties.                         *)
(***************************************************************************)
UnderUsers(req) == Mounted("users", req)

UserControllers == {"getUserById", "createUser"}

\* what the default error handler of Express answers to a body that is not JSON
BodyRejected(us, res) ==
    /\ res.status = 400
    /\ res.by = "errorHandler"
    /\ res.users = us

\* what the bouncer answers
Bounced(us, res) ==
    /\ res.status = 401
    /\ res.json.success = FALSE
    /\ res.by = "auth"
    /\ res.users = us

ProductsServed(us, res) ==
    /\ res.status = 200
    /\ res.by = "getAllProducts"
    /\ res.json.data = Products
    /\ res.users = us

C22_LoggerSeesEveryRequest ==
    \A req \in Requests : app(users, req).logged

\* the routes the application defines, and the files it serves
DefinedRoute(req) ==
    \/ req.method = "GET" /\ req.path \in StaticFiles \cup {<<>>}
    \/ req.method = "GET" /\ req.path = <<"products">>
    \/ req.method = "GET" /\ Len(req.path) = 2 /\ req.path[1] = "users"
    \/ req.method = "POST" /\ req.path = <<"users">>

CaughtAll(us, res) ==
    /\ res.status = 404
    /\ res.json.success = FALSE
    /\ res.by = "catchAll"
    /\ res.users = us

PostUser(o) ==
    [method |-> "POST", path |-> <<"users">>, auth |-> JsString("token"),
     body |-> JsonBody(o)]

\* the value of a key of a parsed body
Field(o, key) == IF key \in DOMAIN o THEN JsString(o[key]) ELSE Undefined

(***************************************************************************)
(* C24.  An authorised POST /users whose body lacks a non-empty name or a  *)
(* non-empty email is answered 400 with success false and leaves the users *)
(* unchanged; every other one is answered 201 and appends exactly one user *)
(* carrying the submitted name and email, its role the submitted one or    *)
(* 'customer' when none (or an empty one) was submitted.                   *)
(***************************************************************************)
C24_CreateValidates ==
    \A o \in StoreObjects :
        LET res  == app(users, PostUser(o))
            name == Field(o, "name")
            mail == Field(o, "email")
            role == Field(o, "role")
        IN  IF ~Truthy(name) \/ ~Truthy(mail)
                THEN /\ res.status = 400
                     /\ res.json.success = FALSE
                     /\ res.users = users
                ELSE /\ res.status = 201
                     /\ res.json.success = TRUE
                     /\ Len(res.users) = Len(users) + 1
                     /\ SubSeq(res.users, 1, Len(users)) = users
                     /\ res.users[Len(res.users)].name = name.value
                     /\ res.users[Len(res.users)].email = mail.value
                     /\ res.users[Len(res.users)].role =
                            IF Truthy(role) THEN role.value ELSE "customer"
                     /\ res.json.data = res.users[Len(res.users)]

\* users were created with a submitted role and with the default one, and
\* now a body without email is refused and a complete one accepted
C24_Witness ==
    /\ \E i, j \in DOMAIN users :
          /\ i > Len(SeedUsers) /\ users[i].name = "Dana" /\ users[i].role = "admin"
          /\ j > Len(SeedUsers) /\ users[j].name = " " /\ users[j].role = "customer"
    /\ app(users, PostUser([name |-> "Dana"])).status = 400
    /\ app(users, PostUser([name |-> "Dana", email |-> ""])).status = 400

Emails(us) == {us[i].email : i \in DOMAIN us}

(***************************************************************************)
(* C25.  createUser gives the new user the id users.length + 1, whatever   *)
(* the users hold: an accepted POST /users is answered 201 with that id    *)
(* also when its email is the email of a user already there, so that two   *)
(* users may share an email.                                               *)
(***************************************************************************)
C25_IdIsLengthPlusOne ==
    \A o \in StoreObjects :
        LET res == app(users, PostUser(o))
        IN  (Truthy(Field(o, "name")) /\ Truthy(Field(o, "email")))
                => /\ res.status = 201
                   /\ res.json.data.id = Len(users) + 1
                   /\ res.users[Len(users) + 1].id = Len(users) + 1
                   /\ o.email \in Emails(users) =>
                          Cardinality({i \in DOMAIN res.users :
                                          res.users[i].email = o.email}) >= 2

\* two users share an email, and a third one with it would be accepted
C25_Witness ==
    /\ \E i, j \in DOMAIN users : i < j /\ users[i].email = users[j].email
    /\ app(users, PostUser([name |-> "Dana", email |-> "alice@example.com"])).status = 201
    /\ app(users, PostUser([name |-> "Dana", email |-> "alice@example.com"])).json.data.id
           = Len(users) + 1

\* an authorised GET /users/<seg>
GetUser(seg) ==
    [method |-> "GET", path |-> <<"users", seg>>, auth |-> JsString("token"),
     body |-> NoBody]

SeedSegments == <<"1", "2", "3">>

(***************************************************************************)
(* C27.  After any sequence of requests the ids of the users are pairwise  *)
(* distinct and the user at position i has id i; a request changes the     *)
(* users only by appending one user; and the three seeded users stay as    *)
(* they were and are returned by GET /users/1, /users/2 and /users/3.      *)
(***************************************************************************)
C27_IdsArePositions ==
    /\ [](/\ \A i \in DOMAIN users : users[i].id = i
          /\ \A i, j \in DOMAIN users : users[i].id = users[j].id => i = j
          /\ SubSeq(users, 1, Len(SeedUsers)) = SeedUsers
          /\ \A i \in DOMAIN SeedUsers :
                /\ app(users, GetUser(SeedSegments[i])).status = 200
                /\ app(users, GetUser(SeedSegments[i])).json.data = SeedUsers[i])
    /\ [][/\ Len(users') = Len(users) + 1
           /\ SubSeq(users', 1, Len(users)) = users]_users

\* as many users were created as the bound allows, the last of them is found
\* under its id, and the first seeded user is still returned
C27_Witness ==
    /\ Len(users) = Len(SeedUsers) + MaxNewUsers
    /\ Len(users) >= 4
    /\ app(users, GetUser("4")).status = 200
    /\ app(users, GetUser("4")).json.data = users[4]
    /\ app(users, GetUser("1")).json.data = SeedUsers[1]

(***************************************************************************)
(* C26.  The weather logger's main runs fetch, save and serve in this      *)
(* order: the server is started and listens only after the fetch has      *)
(* succeeded and its report has been written to the log file, and it       *)
(* answers requests only once it listens; when the fetch or the write      *)
(* fails the process exits with code 1 and the server is never started.    *)
(***************************************************************************)
C26_FetchSaveServe ==
    /\ [](wpc \in {"startServer", "listening"}
              => weatherReport # Nothing /\ logFile = weatherReport)
    /\ [](wpc = "saveToFile" => weatherReport # Nothing)
    /\ [](wpc = "exited" <=> exitCode = <<1>>)
    /\ [](wpc # "listening" => reads = 0 /\ lastStatus = None)
    /\ [][\/ (wpc = "fetchWeather" /\ wpc' \in {"saveToFile", "exited"})
           \/ (wpc = "saveToFile" /\ wpc' \in {"startServer", "exited"})
           \/ (wpc = "startServer" /\ wpc' \in {"listening", "exited"})]_wpc
    /\ [][(wpc = "fetchWeather" /\ weatherReport' = Nothing) => wpc' = "exited"]_wpc
    /\ [][(wpc = "saveToFile" /\ logFile' # weatherReport) => wpc' = "exited"]_wpc

\* the server listens and has answered a request with the report it saved
C26_Witness ==
    /\ wpc = "listening"
    /\ lastStatus = <<200>>
    /\ weatherReport \in {Report(w) : w \in CurrentWeather}
    /\ logFile = weatherReport

Is503(out) == out.status = 503

IsNot503(out) == out.status # 503

(***************************************************************************)
(* C28.  The multi-backend server handles no request before its three      *)
(* initialisation attempts have completed, in the order mongo, mysql,      *)
(* sqlite; the ready flag of the mongo adapter is written only by          *)
(* connectMongoDB during startup; and once the server listens the flag     *)
(* never changes, so that /api/mongo answers 503 to every request or to    *)
(* none.                                                                   *)
(***************************************************************************)
C28_ReadyFlagFrozen ==
    /\ [][\/ (pc = "connectMongoDB" /\ pc' = "connectMySQL")
          \/ (pc = "connectMySQL" /\ pc' = "connectSQLite")
          \/ (pc = "connectSQLite" /\ pc' = "listen")
          \/ (pc = "listen" /\ pc' = "serving")]_pc
    /\ [][pc = "connectMongoDB"]_mongoConnected
    /\ [][Serving]_<<rows, nextId>>
    /\ [](Serving => IF mongoConnected
                         THEN EveryResponse(World, "mongo", IsNot503)
                         ELSE EveryResponse(World, "mongo", Is503))
    /\ [](~Serving => rows = [b \in Backends |-> {}])

\* the server listens with the flag raised, the mongo store has gone down
\* since and a record was stored elsewhere: mongo answers 500, never 503
C28_Witness ==
    /\ Serving
    /\ mongoConnected
    /\ ~up["mongo"]
    /\ rows["sqlite"] # {}
    /\ HandlePost(World, "mongo", BodyAnn).status = 500

SentOnce(out) == out.sent = 1 /\ ~out.escaped

\* the users after one more POST /users, whatever its body
Grown(S) == S \cup {app(us, PostUser(o)).users : us \in S, o \in StoreObjects}

RECURSIVE Sequential(_, _)
Sequential(w, reqs) ==
    IF reqs = <<>> THEN <<>>
    ELSE LET out == Run(w, Head(reqs))
         IN  <<out>> \o Sequential(After(w, Head(reqs).b, out), Tail(reqs))

\* the stores after the responses outs, handled one after the other from w
StoreAfter(w, reqs, outs) ==
    IF outs = <<>> THEN [rows |-> w.rows, nextId |-> w.nextId]
    ELSE LET b == reqs[Len(reqs)].b
         IN  [rows   |-> [w.rows EXCEPT ![b] = outs[Len(outs)].rows],
              nextId |-> [w.nextId EXCEPT ![b] = outs[Len(outs)].nextId]]

\* the handlers of the burst that have answered are as if handled in `order`
AsIfInOrder(order) ==
    LET reqs == [k \in DOMAIN order |-> inflight[order[k]].req]
        outs == Sequential(Snapshot, reqs)
    IN  /\ \A k \in DOMAIN order :
              /\ outs[k].status = inflight[order[k]].out.status
              /\ outs[k].json = inflight[order[k]].out.json
        /\ StoreAfter(Snapshot, reqs, outs) = [rows |-> rows, nextId |-> nextId]

Answered == {i \in DOMAIN inflight : Executed(inflight[i])}

(***************************************************************************)
(* C30.  Whatever the interleaving of the concurrent creates, updates and  *)
(* deletes of one backend, their responses and the store they leave are    *)
(* those of the same requests handled one after the other in some order.   *)
(* So a PUT and a DELETE of one stored id under way together end as PUT    *)
(* 200 and DELETE 200, or as DELETE 200 and PUT 404, the record gone; and  *)
(* concurrent creates are given distinct ids.                              *)
(***************************************************************************)
C30_Serializable ==
    /\ \E order \in Arrangements(Answered) : AsIfInOrder(order)
    /\ \A i, j \in Answered :
          (/\ Len(inflight) = 2
           /\ inflight[i].req.kind = "PUT"
           /\ inflight[j].req.kind = "DELETE"
           /\ Stored(Snapshot, inflight[i].req.b, inflight[i].req.id) # {})
              => /\ inflight[j].out.status = 200
                 /\ inflight[i].out.status \in {200, 404}
                 /\ Stored(World, inflight[i].req.b, inflight[i].req.id) = {}
    /\ \A i, j \in Answered :
          (/\ i # j
           /\ inflight[i].out.status = 201
           /\ inflight[j].out.status = 201)
              => inflight[i].out.json.data # inflight[j].out.json.data

\* a mysql PUT and DELETE of the stored record 1 arrived together; the
\* DELETE ran first and the PUT was answered 404
C30_Witness ==
    /\ Len(inflight) = 2
    /\ inflight[1].req = [kind |-> "PUT", b |-> "mysql", id |-> "1", body |-> BodyBlankBob]
    /\ inflight[2].req.kind = "DELETE"
    /\ Stored(Snapshot, "mysql", "1") # {}
    /\ inflight[2].out.status = 200
    /\ inflight[1].out.status = 404

FairSpec == Spec /\ WF_vars(startServer)

====
